---- MODULE Spec2Model ----
(***************************************************************************)
(* A model of src/server.py: the LaTeX MCP server.                         *)
(*                                                                         *)
(* Text is modelled as TLA+ strings (TLC evaluates Len, SubSeq and \o on   *)
(* them), paths as sequences of path segments below "/", subprocess output *)
(* and file contents as sequences of bytes.  The file system is a function *)
(* from the paths that exist to their nodes.                               *)
(*                                                                         *)
(* Four specifications share the definitions:                              *)
(*   SpecResolve  resolve_workspace_path applied to path strings           *)
(*   SpecExec     one build or clean call, its child writing byte by byte  *)
(*   Spec         concurrent calls of the three tools over one file system *)
(*   SpecMain     main(): the transports started from the environment      *)
(***************************************************************************)
EXTENDS Integers, Sequences, FiniteSets, TLC

VARIABLES
    root,       \* WORKSPACE_ROOT, fixed at import time
    fs,         \* the file system: path -> node, for the paths that exist
    rin,        \* SpecResolve: the user_path handed to resolve_workspace_path
    rout,       \* SpecResolve: what the call produced
    calls,      \* Spec, SpecExec: the tool invocation running in each slot
    started,    \* Spec: number of invocations started so far
    lastread,   \* Spec: per file argument, the last read_latex_log result
    env,        \* SpecMain: the process environment
    mainst      \* SpecMain: main()'s position, flags and tasks

vars == <<root, fs, rin, rout, calls, started, lastread, env, mainst>>

----------------------------------------------------------------------------
(* Bounds of the model. *)

\* Longest user path, in "/"-separated components.
MaxParts == 3
\* Most bytes a child writes to one stream.
MaxOut == 2
\* Most tool invocations started in one behaviour.
MaxStarted == 2
\* Deepest nesting of symbolic links followed while resolving.
MaxLinkDepth == 2

----------------------------------------------------------------------------
(* Strings. *)

CharAt(s, i) == SubSeq(s, i, i)

\* Whether sub occurs in s.
Contains(s, sub) ==
    \E i \in 1..(Len(s) - Len(sub) + 1) : SubSeq(s, i, i + Len(sub) - 1) = sub

StartsWith(s, pre) == Len(pre) <= Len(s) /\ SubSeq(s, 1, Len(pre)) = pre

EndsWith(s, suf) ==
    Len(suf) <= Len(s) /\ SubSeq(s, Len(s) - Len(suf) + 1, Len(s)) = suf

\* sep.join(items)
RECURSIVE Join(_, _)
Join(items, sep) ==
    IF items = <<>> THEN ""
    ELSE IF Len(items) = 1 THEN items[1]
    ELSE items[1] \o sep \o Join(Tail(items), sep)

\* s.split("/")
RECURSIVE SplitFrom(_, _, _)
SplitFrom(s, i, cur) ==
    IF i > Len(s) THEN <<cur>>
    ELSE IF CharAt(s, i) = "/" THEN <<cur>> \o SplitFrom(s, i + 1, "")
    ELSE SplitFrom(s, i + 1, cur \o CharAt(s, i))

Split(s) == SplitFrom(s, 1, "")

\* The names of the model's file system in Python's string order.
NameOrder ==
    <<"..", "demo", "etc", "foo", "foo2", "main.log", "main.pdf", "main.tex",
      "nope.tex", "out", "passwd", "workspaces", "workspaces.log",
      "workspaces.pdf", "workspaces2">>

\* sorted(names)
Sorted(names) == SelectSeq(NameOrder, LAMBDA n : n \in names)

\* items[:n]
Take(items, n) == SubSeq(items, 1, IF Len(items) < n THEN Len(items) ELSE n)

----------------------------------------------------------------------------
(* pathlib: pure paths.  A path is the sequence of its segments below "/". *)

\* str(path)
Str(path) == IF path = <<>> THEN "/" ELSE "/" \o Join(path, "/")

\* Path(user_path): the string split at "/", empty and "." components
\* dropped, ".." kept.
ParsePath(s) ==
    [abs   |-> StartsWith(s, "/"),
     parts |-> SelectSeq(Split(s), LAMBDA n : n # "" /\ n # ".")]

\* path.parent ("/" is its own parent)
Parent(path) == IF path = <<>> THEN <<>> ELSE SubSeq(path, 1, Len(path) - 1)

\* path.name
Name(path) == IF path = <<>> THEN "" ELSE path[Len(path)]

\* The index of the last "." of name, 0 when there is none: name.rfind(".") + 1
RECURSIVE RFindDot(_, _)
RFindDot(name, i) ==
    IF i = 0 THEN 0
    ELSE IF CharAt(name, i) = "." THEN i
    ELSE RFindDot(name, i - 1)

\* path.stem: the name without its last suffix
Stem(path) ==
    LET name == Name(path)
        i    == RFindDot(name, Len(name))
    IN IF 1 < i /\ i < Len(name) THEN SubSeq(name, 1, i - 1) ELSE name

\* path.relative_to(other) succeeds: other's segments are a prefix of path's
IsRelativeTo(path, other) ==
    Len(other) <= Len(path) /\ SubSeq(path, 1, Len(other)) = other

----------------------------------------------------------------------------
(* The file system. *)

Dir == [t |-> "dir"]
File(bytes) == [t |-> "file", data |-> bytes]
Link(target) == [t |-> "link", to |-> target]

NodeType(f, p) ==
    IF p = <<>> THEN "dir" ELSE IF p \in DOMAIN f THEN f[p].t ELSE "none"

\* os.path.islink
IsLink(f, p) == NodeType(f, p) = "link"

\* posixpath._joinrealpath, not strict: path is resolved already, rest are
\* the components still to walk.  ".." drops the last resolved segment, a
\* symbolic link is replaced by its resolved target, a missing component is
\* kept as it is.
RECURSIVE JoinRealPath(_, _, _, _)
JoinRealPath(f, path, rest, fuel) ==
    IF rest = <<>> THEN path
    ELSE LET name == Head(rest)
             newpath == Append(path, name)
         IN IF name = "" \/ name = "."
                THEN JoinRealPath(f, path, Tail(rest), fuel)
            ELSE IF name = ".."
                THEN JoinRealPath(f, Parent(path), Tail(rest), fuel)
            ELSE IF IsLink(f, newpath) /\ fuel > 0
                THEN LET tgt == ParsePath(f[newpath].to)
                         base == IF tgt.abs THEN <<>> ELSE path
                     IN JoinRealPath(f,
                            JoinRealPath(f, base, tgt.parts, fuel - 1),
                            Tail(rest), fuel)
            ELSE JoinRealPath(f, newpath, Tail(rest), fuel)

\* Path.resolve()
Resolve(f, path) == JoinRealPath(f, <<>>, path, MaxLinkDepth)

\* Path.exists(): stat follows symbolic links
Exists(f, path) == NodeType(f, Resolve(f, path)) \in {"dir", "file"}

\* Path.is_dir()
IsDir(f, path) == NodeType(f, Resolve(f, path)) = "dir"

\* Path.iterdir(): the names in directory path
ListDir(f, path) ==
    LET d == Resolve(f, path)
    IN {Name(p) : p \in {q \in DOMAIN f : Len(q) = Len(d) + 1 /\ Parent(q) = d}}

----------------------------------------------------------------------------
(* Guidance text and the path guard. *)

\* workspace_overview's max_entries, and the number of subdirectories named.
MaxEntries == 10
MaxSubdirs == 5

\* The "  - name (subdirs: a, b)" line of first-level directory d.
OverviewLine(f, r, d) ==
    LET subs == Sorted({n \in ListDir(f, Append(r, d)) :
                            IsDir(f, Append(Append(r, d), n))})
        suffix == IF subs = <<>> THEN ""
                  ELSE " (subdirs: " \o Join(Take(subs, MaxSubdirs), ", ") \o ")"
    IN "  - " \o d \o suffix

RECURSIVE OverviewLines(_, _, _)
OverviewLines(f, r, dirs) ==
    IF dirs = <<>> THEN <<>>
    ELSE <<OverviewLine(f, r, Head(dirs))>> \o OverviewLines(f, r, Tail(dirs))

\* workspace_overview()
workspace_overview(f, r) ==
    IF ~IsDir(f, r) THEN "(could not list " \o Str(r) \o ": OSError)"
    ELSE LET dirs == Sorted({n \in ListDir(f, r) : IsDir(f, Append(r, n))})
             more == IF Len(dirs) > MaxEntries
                     THEN <<"  - ... (" \o ToString(Len(dirs) - MaxEntries)
                              \o " more)">>
                     ELSE <<>>
         IN Join(<<"- " \o Str(r)>>
                 \o OverviewLines(f, r, Take(dirs, MaxEntries)) \o more, "\n")

\* initial_guidance()
initial_guidance(f, r) ==
    "This MCP server runs inside a dev container. Use paths under " \o Str(r)
    \o " as seen inside the container; the server will reject paths outside"
    \o " this root. The server does not auto-convert host paths. "
    \o "Workspace overview:\n" \o workspace_overview(f, r)

\* path_guidance()
path_guidance(f, r) == initial_guidance(f, r)

\* abs_path.relative_to(WORKSPACE_ROOT) with a string-prefix test in its place.
RelativeToByStringPrefix(path, other) == StartsWith(Str(path), Str(other))

\* resolve_workspace_path without its containment test.
NoContainmentTest(path, other) == TRUE

\* The containment test of resolve_workspace_path.
InsideRoot(path, other) == IsRelativeTo(path, other)

\* resolve_workspace_path(user_path): ok and the resolved path, or the
\* ValueError's message.
resolve_workspace_path(f, r, user_path) ==
    LET candidate == ParsePath(user_path)
        joined == IF candidate.abs THEN candidate.parts
                  ELSE r \o candidate.parts
        abs_path == Resolve(f, joined)
    IN IF InsideRoot(abs_path, r)
       THEN [ok |-> TRUE, path |-> abs_path, err |-> ""]
       ELSE [ok |-> FALSE, path |-> abs_path,
             err |-> "Path " \o Str(abs_path) \o " is outside workspace root "
                     \o Str(r) \o ". " \o path_guidance(f, r)]

----------------------------------------------------------------------------
(* The file system the tools run over. *)

DefaultRoot == <<"workspaces">>

\* /workspaces/out and /workspaces/foo/out are symbolic links leaving the
\* workspace, the first absolute and the second relative.
BaseFs ==
    (<<"etc">> :> Dir) @@
    (<<"etc", "passwd">> :> File(<<65>>)) @@
    (<<"workspaces">> :> Dir) @@
    (<<"workspaces.log">> :> File(<<65, 65>>)) @@
    (<<"workspaces2">> :> Dir) @@
    (<<"workspaces2", "main.tex">> :> File(<<>>)) @@
    (<<"workspaces", "out">> :> Link("/etc")) @@
    (<<"workspaces", "demo">> :> Dir) @@
    (<<"workspaces", "demo", "main.tex">> :> File(<<>>)) @@
    (<<"workspaces", "foo">> :> Dir) @@
    (<<"workspaces", "foo", "main.tex">> :> File(<<>>)) @@
    (<<"workspaces", "foo", "out">> :> Link("../../etc")) @@
    (<<"workspaces", "foo2">> :> Dir) @@
    (<<"workspaces", "foo2", "main.tex">> :> File(<<>>))

DemoLog == <<"workspaces", "demo", "main.log">>

\* The file systems a behaviour may start from: main.log is absent, a file
\* with a byte that is not valid UTF-8, or a symbolic link out of the root.
InitialFs ==
    { BaseFs,
      (DemoLog :> File(<<65, 255>>)) @@ BaseFs,
      (DemoLog :> Link("/etc/passwd")) @@ BaseFs }

----------------------------------------------------------------------------
(* SpecResolve: resolve_workspace_path over path strings. *)

Roots == {DefaultRoot, <<"workspaces", "foo">>}

PathAtoms ==
    {"..", ".", "workspaces", "workspaces2", "foo", "foo2", "etc", "out",
     "main.tex"}

SeqsUpTo(S, n) == UNION {[1..k -> S] : k \in 0..n}

\* Absolute and relative path strings of up to MaxParts components.
UserPaths ==
    {(IF a THEN "/" ELSE "") \o Join(ps, "/") :
        a \in BOOLEAN, ps \in SeqsUpTo(PathAtoms, MaxParts)}

NoResult == [st |-> "none", ok |-> FALSE, path |-> <<>>, err |-> ""]

IdleMain ==
    [pc |-> "idle", enable_stdio |-> FALSE, enable_http |-> FALSE,
     tasks |-> <<>>]

ResolveInit ==
    /\ root \in Roots
    /\ fs = BaseFs
    /\ rin \in UserPaths
    /\ rout = NoResult
    /\ calls = <<>>
    /\ started = 0
    /\ lastread = <<>>
    /\ env = <<>>
    /\ mainst = IdleMain

\* One call of resolve_workspace_path(rin).
ResolveCall ==
    /\ rout.st = "none"
    /\ rout' = [st |-> "returned"] @@ resolve_workspace_path(fs, root, rin)
    /\ UNCHANGED <<root, fs, rin, calls, started, lastread, env, mainst>>

ResolveNext == ResolveCall

SpecResolve == ResolveInit /\ [][ResolveNext]_vars

\* Whether path p is r or below it, by whole segments.
Within(p, r) == \E k \in 0..Len(p) : SubSeq(p, 1, k) = r

\* Whether p is normalized: no "." or ".." or empty segment, and no prefix of
\* it is a symbolic link, so that p names the place it spells.
Canonical(f, p) ==
    /\ \A i \in 1..Len(p) : p[i] \notin {"", ".", ".."}
    /\ \A k \in 1..Len(p) : ~IsLink(f, SubSeq(p, 1, k))

\* C1: resolve_workspace_path returns a normalized absolute path that is
\* WORKSPACE_ROOT or below it by whole segments, or fails with the
\* path-escape error, and it fails only for a path outside the root; a path
\* whose string merely starts with the root's string is rejected.
C1_ResolvedInsideRoot ==
    rout.st = "returned" =>
        /\ rout.ok => Within(rout.path, root) /\ Canonical(fs, rout.path)
        /\ ~rout.ok =>
              /\ ~Within(rout.path, root)
              /\ Contains(rout.err, "outside workspace root")
              /\ Contains(rout.err, Str(rout.path))
        /\ (StartsWith(Str(rout.path), Str(root)) /\ ~Within(rout.path, root))
              => ~rout.ok

\* The sibling /workspaces/foo2 of root /workspaces/foo was rejected.
C1_Witness ==
    /\ rout.st = "returned"
    /\ root = <<"workspaces", "foo">>
    /\ rin = "/workspaces/foo2"
    /\ rout.path = <<"workspaces", "foo2">>
    /\ ~rout.ok

\* A path through the outward symbolic link was rejected.
C1_WitnessLink ==
    /\ rout.st = "returned"
    /\ rin = "out/passwd"
    /\ rout.path = <<"etc", "passwd">>
    /\ ~rout.ok

----------------------------------------------------------------------------
(* Decoding bytes to text. *)

\* chr(cp), for the code points the model's bytes can spell.  Code points
\* above ASCII are written <U+n>.
Chr(cp) ==
    CASE cp = 65 -> "A"
      [] cp = 10 -> "\n"
      [] OTHER -> "<U+" \o ToString(cp) \o ">"

IsContinuation(b) == 128 <= b /\ b <= 191

\* codecs.utf_8_decode(bytes, errors): one- and two-byte forms.  An invalid
\* or truncated sequence raises under "strict" (ok is FALSE) and has its
\* first byte dropped under "ignore".  The lead bytes of the three- and
\* four-byte forms are not among the bytes the model's children write.
RECURSIVE Utf8Decode(_, _)
Utf8Decode(bytes, errors) ==
    IF bytes = <<>> THEN [ok |-> TRUE, text |-> ""]
    ELSE LET b == Head(bytes)
         IN IF b < 128
                THEN LET r == Utf8Decode(Tail(bytes), errors)
                     IN [ok |-> r.ok, text |-> Chr(b) \o r.text]
            ELSE IF 194 <= b /\ b <= 223 /\ Len(bytes) >= 2
                    /\ IsContinuation(bytes[2])
                THEN LET r == Utf8Decode(SubSeq(bytes, 3, Len(bytes)), errors)
                     IN [ok |-> r.ok,
                         text |-> Chr((b % 32) * 64 + (bytes[2] % 64)) \o r.text]
            ELSE IF errors = "ignore"
                THEN Utf8Decode(Tail(bytes), errors)
            ELSE [ok |-> FALSE, text |-> ""]

\* bytes.decode(): UTF-8, errors="strict"
Decode(bytes) == Utf8Decode(bytes, "strict")

\* Path.read_text(encoding="utf-8", errors="ignore") of file contents
ReadTextIgnore(bytes) == Utf8Decode(bytes, "ignore").text

----------------------------------------------------------------------------
(* run_command_async: the transcript of a finished child. *)

\* ExitNote with the note written for every exit code.
ExitNoteAlways(rc) ==
    "\n\n[latex-mcp] Command exited with code " \o ToString(rc) \o "\n"

\* The trailing exit-code note.
ExitNote(rc) ==
    IF rc # 0
    THEN "\n\n[latex-mcp] Command exited with code " \o ToString(rc) \o "\n"
    ELSE ""

\* The log string built from the decoded streams.
Transcript(cmd, outText, errText, rc) ==
    "> " \o cmd \o "\n\n" \o outText \o errText \o ExitNote(rc)

\* Lines 123-130 of run_command_async after communicate() returned out, err
\* and the return code: the log, or raised when a decode() raised
\* UnicodeDecodeError.
run_command_log(cmd, out, err, rc) ==
    LET o == IF out # <<>> THEN Decode(out) ELSE [ok |-> TRUE, text |-> ""]
        e == IF err # <<>> THEN Decode(err) ELSE [ok |-> TRUE, text |-> ""]
    IN IF ~o.ok \/ ~e.ok
       THEN [raised |-> TRUE, log |-> ""]
       ELSE [raised |-> FALSE, log |-> Transcript(cmd, o.text, e.text, rc)]

----------------------------------------------------------------------------
(* The tools' commands and reports. *)

\* The engine parameter's default.
EngineParam(opt) == IF opt = "unset" THEN "pdflatex" ELSE opt

\* The mode parameter's default.
ModeParam(opt) == IF opt = "unset" THEN "aux" ELSE opt

\* build_latex's engine_flag with xelatex left on the default flag.
EngineFlagNoXe(engine) == IF engine = "lualatex" THEN "-pdflua" ELSE "-pdf"

\* build_latex's engine_flag
EngineFlag(engine) ==
    IF engine = "xelatex" THEN "-pdfxe"
    ELSE IF engine = "lualatex" THEN "-pdflua"
    ELSE "-pdf"

\* build_latex's cmd
BuildCmd(engine, filename) ==
    Join(<<"latexmk", "-synctex=1", "-interaction=nonstopmode",
           "-file-line-error", EngineFlag(engine),
           "\"" \o filename \o "\"">>, " ")

\* clean_latex's flag
CleanFlag(mode) == IF mode = "all" THEN "-C" ELSE "-c"

\* clean_latex's cmd
CleanCmd(mode, filename) ==
    "latexmk " \o CleanFlag(mode) \o " \"" \o filename \o "\""

\* cwd / f"{base}.pdf" and cwd / f"{base}.log" of a resolved path
PdfPath(abs_path) == Append(Parent(abs_path), Stem(abs_path) \o ".pdf")
LogPath(abs_path) == Append(Parent(abs_path), Stem(abs_path) \o ".log")

\* build_latex's summary
BuildReport(cwd, cmd, pdf_path, pdf_exists, log) ==
    "build_latex finished.\n\n"
    \o "Working directory: " \o Str(cwd) \o "\n"
    \o "Command: " \o cmd \o "\n"
    \o "PDF exists: " \o (IF pdf_exists THEN Str(pdf_path) ELSE "NO") \o "\n\n"
    \o "--- Latexmk log ---\n" \o log

\* clean_latex's msg
CleanReport(mode, cmd, log) ==
    "clean_latex finished.\n"
    \o "Mode: " \o mode \o "\n"
    \o "Command: " \o cmd \o "\n\n"
    \o "--- Latexmk log ---\n" \o log

\* The two early returns shared by build_latex and clean_latex.
EscapeReport(err) == "ERROR: " \o err
NotFoundReport(f, r, abs_path) ==
    "ERROR: File not found: " \o Str(abs_path) \o "\n" \o path_guidance(f, r)

\* read_latex_log's two returns.
LogMissingReport(f, r, log_path) ==
    "Log file not found: " \o Str(log_path)
    \o "\nYou may need to run build_latex first.\n" \o path_guidance(f, r)
LogReport(log_path, content) ==
    "Log path: " \o Str(log_path) \o "\n\n" \o content

----------------------------------------------------------------------------
(* latexmk, an external process: what a run may do to the file system. *)

Remove(f, p) == [q \in DOMAIN f \ {p} |-> f[q]]
Write(f, p, node) == (p :> node) @@ f

\* A build may leave <stem>.log and <stem>.pdf next to the source, each or
\* neither (eff names the files it writes); a clean removes <stem>.log, and
\* <stem>.pdf too under -C, or does nothing when eff is empty.
ChildFsEffect(f, tool, cmd, abs_path, eff) ==
    LET log == LogPath(abs_path)
        pdf == PdfPath(abs_path)
        f1 == IF "log" \in eff
              THEN IF tool = "build_latex" THEN Write(f, log, File(<<65>>))
                   ELSE Remove(f, log)
              ELSE f
    IN IF "pdf" \in eff
       THEN IF tool = "build_latex" THEN Write(f1, pdf, File(<<>>))
            ELSE IF Contains(cmd, " -C ") THEN Remove(f1, pdf)
            ELSE f1
       ELSE f1

Effects == SUBSET {"log", "pdf"}

----------------------------------------------------------------------------
(* Tool invocations. *)

NoPrev == [valid |-> FALSE, res |-> ""]

IdleCall ==
    [pc |-> "idle", tool |-> "", file |-> "", opt |-> "", abs |-> <<>>,
     cmd |-> "", cwd |-> <<>>, out |-> <<>>, err |-> <<>>, rc |-> 0,
     report |-> "", exc |-> "", spawns |-> 0, touched |-> {},
     fs0 |-> <<>>, eff |-> {}, dirty |-> FALSE, prev |-> NoPrev]

Slots == DOMAIN calls

\* The framework receives a tools/call request and enters the handler.
\* fs0, dirty and prev are history: the file system at entry, whether
\* another invocation's child has changed it since, and the last result of
\* read_latex_log for this file if nothing changed after it.
Start(s, tool, file, opt) ==
    /\ calls[s].pc = "idle"
    /\ started < MaxStarted
    /\ calls' = [calls EXCEPT ![s] =
            [IdleCall EXCEPT !.pc = "resolve", !.tool = tool, !.file = file,
                             !.opt = opt, !.fs0 = fs,
                             !.prev = IF tool = "read_latex_log"
                                      THEN lastread[file] ELSE NoPrev]]
    /\ started' = started + 1
    /\ UNCHANGED <<root, fs, rin, rout, lastread, env, mainst>>

\* try: abs_path = resolve_workspace_path(file)
\* except ValueError as exc: return f"ERROR: {exc}"
ResolveStep(s) ==
    /\ calls[s].pc = "resolve"
    /\ LET c == calls[s]
           r == resolve_workspace_path(fs, root, c.file)
       IN calls' = [calls EXCEPT ![s] =
            IF ~r.ok
            THEN [c EXCEPT !.pc = "done", !.report = EscapeReport(r.err)]
            ELSE [c EXCEPT !.pc = IF c.tool = "read_latex_log"
                                  THEN "logexists" ELSE "exists",
                           !.abs = r.path]]
    /\ UNCHANGED <<root, fs, rin, rout, started, lastread, env, mainst>>

\* The command of a build or clean call.
ToolCmd(tool, opt, abs_path) ==
    IF tool = "build_latex" THEN BuildCmd(EngineParam(opt), Name(abs_path))
    ELSE CleanCmd(ModeParam(opt), Name(abs_path))

\* cwd = abs_path.parent
ToolCwd(abs_path) == Parent(abs_path)

\* build_latex and clean_latex from the existence test to the spawn:
\* if not abs_path.exists(): return "ERROR: File not found ..."; otherwise
\* cwd, filename and cmd are computed and create_subprocess_shell starts the
\* child.
ExistsStep(s) ==
    /\ calls[s].pc = "exists"
    /\ LET c == calls[s]
       IN calls' = [calls EXCEPT ![s] =
            IF ~Exists(fs, c.abs)
            THEN [c EXCEPT !.pc = "done",
                           !.touched = @ \cup {Resolve(fs, c.abs)},
                           !.report = NotFoundReport(fs, root, c.abs)]
            ELSE [c EXCEPT !.pc = "running",
                           !.touched = @ \cup {Resolve(fs, c.abs),
                                               ToolCwd(c.abs)},
                           !.cwd = ToolCwd(c.abs),
                           !.cmd = ToolCmd(c.tool, c.opt, c.abs),
                           !.spawns = @ + 1]]
    /\ UNCHANGED <<root, fs, rin, rout, started, lastread, env, mainst>>

Bytes == {65, 195, 169, 255}

\* The child writes a byte to its standard output.
ChildWriteOut(s, b) ==
    /\ calls[s].pc = "running"
    /\ Len(calls[s].out) < MaxOut
    /\ calls' = [calls EXCEPT ![s].out = Append(@, b)]
    /\ UNCHANGED <<root, fs, rin, rout, started, lastread, env, mainst>>

\* The child writes a byte to its standard error.
ChildWriteErr(s, b) ==
    /\ calls[s].pc = "running"
    /\ Len(calls[s].err) < MaxOut
    /\ calls' = [calls EXCEPT ![s].err = Append(@, b)]
    /\ UNCHANGED <<root, fs, rin, rout, started, lastread, env, mainst>>

\* The child leaves its files and exits with rc, having written out and err.
\* A change of the file system marks every other running invocation dirty
\* and ends the validity of the remembered read_latex_log results.
ChildFinishes(s, rc, eff, out, err) ==
    /\ calls[s].pc = "running"
    /\ LET c == calls[s]
           f1 == ChildFsEffect(fs, c.tool, c.cmd, c.abs, eff)
       IN /\ fs' = f1
          /\ calls' = [t \in DOMAIN calls |->
                IF t = s
                THEN [c EXCEPT !.pc = "exited", !.rc = rc, !.eff = eff,
                               !.out = out, !.err = err]
                ELSE IF calls[t].pc # "idle" /\ f1 # fs
                THEN [calls[t] EXCEPT !.dirty = TRUE]
                ELSE calls[t]]
          /\ lastread' = IF f1 # fs
                         THEN [f \in DOMAIN lastread |-> NoPrev]
                         ELSE lastread
    /\ UNCHANGED <<root, rin, rout, started, env, mainst>>

ExitCodes == {0, 1, -9}

\* The child exits after the bytes it wrote one by one.
ChildExit(s, rc, eff) == ChildFinishes(s, rc, eff, calls[s].out, calls[s].err)

\* A whole run of the child at once, with out on its standard output.
ChildRun(s, rc, eff, out) ==
    /\ calls[s].out = <<>>
    /\ ChildFinishes(s, rc, eff, out, <<>>)

\* abs_path kept in a variable of the module that every invocation
\* assigns: the path of another invocation past its resolution, if any.
AbsPathShared(s) ==
    LET others == {t \in DOMAIN calls \ {s} :
                        calls[t].pc \notin {"idle", "resolve"}}
    IN IF others = {} THEN calls[s].abs
       ELSE calls[CHOOSE t \in others : TRUE].abs

\* abs_path, a local variable of the invocation
AbsPathOf(s) == calls[s].abs

\* pdf_exists as tested before the command ran.
PdfExistsBeforeRun(s) == Exists(calls[s].fs0, PdfPath(AbsPathOf(s)))

\* pdf_exists = pdf_path.exists(), after the command
PdfExistsAfterRun(s) == Exists(fs, PdfPath(AbsPathOf(s)))

\* communicate() has returned: the log is formatted (a decode may raise) and
\* the tool builds its report; build_latex tests for the PDF first.
Finish(s) ==
    /\ calls[s].pc = "exited"
    /\ LET c == calls[s]
           r == run_command_log(c.cmd, c.out, c.err, c.rc)
       IN calls' = [calls EXCEPT ![s] =
            IF r.raised
            THEN [c EXCEPT !.pc = "raised", !.exc = "UnicodeDecodeError"]
            ELSE IF c.tool = "build_latex"
            THEN [c EXCEPT !.pc = "done",
                           !.touched = @ \cup
                                {Resolve(fs, PdfPath(AbsPathOf(s)))},
                           !.report = BuildReport(c.cwd, c.cmd,
                                                  PdfPath(AbsPathOf(s)),
                                                  PdfExistsAfterRun(s), r.log)]
            ELSE [c EXCEPT !.pc = "done",
                           !.report = CleanReport(ModeParam(c.opt), c.cmd,
                                                  r.log)]]
    /\ UNCHANGED <<root, fs, rin, rout, started, lastread, env, mainst>>

\* read_latex_log: if not log_path.exists(): return the guidance
LogExistsStep(s) ==
    /\ calls[s].pc = "logexists"
    /\ LET c == calls[s]
           log_path == LogPath(c.abs)
       IN calls' = [calls EXCEPT ![s] =
            IF ~Exists(fs, log_path)
            THEN [c EXCEPT !.pc = "done",
                           !.touched = @ \cup {Resolve(fs, log_path)},
                           !.report = LogMissingReport(fs, root, log_path)]
            ELSE [c EXCEPT !.pc = "readtext",
                           !.touched = @ \cup {Resolve(fs, log_path)}]]
    /\ UNCHANGED <<root, fs, rin, rout, started, lastread, env, mainst>>

\* The file system read_text leaves behind, with the log consumed.
FsAfterReadConsuming(f, log_path) == Remove(f, Resolve(f, log_path))

\* The file system read_text leaves behind: it only reads.
FsAfterRead(f, log_path) == f

\* read_latex_log: content = log_path.read_text(encoding="utf-8",
\* errors="ignore"), which raises when the file is gone by now.
ReadTextStep(s) ==
    /\ calls[s].pc = "readtext"
    /\ LET c == calls[s]
           log_path == LogPath(c.abs)
           real == Resolve(fs, log_path)
       IN /\ calls' = [calls EXCEPT ![s] =
                IF NodeType(fs, real) = "file"
                THEN [c EXCEPT !.pc = "done",
                               !.touched = @ \cup {real},
                               !.report = LogReport(log_path,
                                            ReadTextIgnore(fs[real].data))]
                ELSE [c EXCEPT !.pc = "raised",
                               !.exc = IF NodeType(fs, real) = "dir"
                                       THEN "IsADirectoryError"
                                       ELSE "FileNotFoundError"]]
          /\ fs' = FsAfterRead(fs, log_path)
    /\ UNCHANGED <<root, rin, rout, started, lastread, env, mainst>>

\* The handler's result goes back to the caller.  A read_latex_log result
\* is remembered for its file unless the file system changed under it.
Return(s) ==
    /\ calls[s].pc \in {"done", "raised"}
    /\ LET c == calls[s]
       IN lastread' =
            IF c.tool = "read_latex_log" /\ c.file \in DOMAIN lastread
            THEN [lastread EXCEPT ![c.file] =
                    IF c.pc = "done" /\ ~c.dirty
                    THEN [valid |-> TRUE, res |-> c.report]
                    ELSE NoPrev]
            ELSE lastread
    /\ calls' = [calls EXCEPT ![s] = IdleCall]
    /\ UNCHANGED <<root, fs, rin, rout, started, env, mainst>>

----------------------------------------------------------------------------
(* Spec: two concurrent invocations over one file system. *)

SpecFiles == {"demo/main.tex", "../etc/passwd", ".", "demo/nope.tex"}

\* The tool and its optional argument, as the caller gives them.
ToolArgs ==
    {<<"build_latex", "unset">>, <<"clean_latex", "all">>,
     <<"read_latex_log", "">>}

\* What a whole run of a child does in Spec: any exit code and files with
\* nothing written, or a failed run that wrote one byte that is not valid
\* UTF-8 to its standard output.
RunOutcomes ==
    ({0, 1} \X Effects \X {<<>>}) \cup {<<1, {}, <<255>> >>}

Init ==
    /\ root = DefaultRoot
    /\ fs \in InitialFs
    /\ rin = ""
    /\ rout = NoResult
    /\ calls = [s \in {1, 2} |-> IdleCall]
    /\ started = 0
    /\ lastread = [f \in SpecFiles |-> NoPrev]
    /\ env = <<>>
    /\ mainst = IdleMain

Next ==
    \E s \in Slots :
        \/ \E a \in ToolArgs, file \in SpecFiles : Start(s, a[1], file, a[2])
        \/ ResolveStep(s)
        \/ ExistsStep(s)
        \/ \E o \in RunOutcomes : ChildRun(s, o[1], o[2], o[3])
        \/ Finish(s)
        \/ LogExistsStep(s)
        \/ ReadTextStep(s)
        \/ Return(s)

Spec == Init /\ [][Next]_vars

----------------------------------------------------------------------------
(* SpecExec: one build or clean call, its child writing byte by byte. *)

ExecFiles ==
    {"demo/main.tex", "/workspaces/foo/main.tex", "../etc/passwd",
     "demo/nope.tex"}

ExecToolArgs ==
    ({"build_latex"} \X {"unset", "pdflatex", "xelatex", "lualatex"})
    \cup ({"clean_latex"} \X {"unset", "all"})

\* The files a child of SpecExec leaves: none, or all it can.
ExecEffects == {{}, {"log", "pdf"}}

ExecInit ==
    /\ root = DefaultRoot
    /\ fs = BaseFs
    /\ rin = ""
    /\ rout = NoResult
    /\ calls = [s \in {1} |-> IdleCall]
    /\ started = 0
    /\ lastread = [f \in ExecFiles |-> NoPrev]
    /\ env = <<>>
    /\ mainst = IdleMain

ExecNext ==
    \E s \in Slots :
        \/ \E a \in ExecToolArgs, file \in ExecFiles :
                Start(s, a[1], file, a[2])
        \/ ResolveStep(s)
        \/ ExistsStep(s)
        \/ \E b \in Bytes : ChildWriteOut(s, b)
        \/ \E b \in Bytes : ChildWriteErr(s, b)
        \/ \E rc \in ExitCodes, eff \in ExecEffects : ChildExit(s, rc, eff)
        \/ Finish(s)

SpecExec == ExecInit /\ [][ExecNext]_vars

----------------------------------------------------------------------------
(* SpecMain: main() starting the transports. *)

\* The environment: each flag unset, or set to one of these strings.
EnvValues == {"0", "1", "", "false"}
EnvKeys == {"ENABLE_STDIO", "ENABLE_HTTP"}

\* os.environ.get(key, default)
EnvGet(e, key, default) == IF key \in DOMAIN e THEN e[key] ELSE default

\* Whether a flag's value enables its transport, read as == "1".
FlagIsOne(value) == value = "1"

\* Whether a flag's value enables its transport: != "0"
FlagEnabled(value) == value # "0"

MainInit ==
    /\ root = DefaultRoot
    /\ fs = BaseFs
    /\ rin = ""
    /\ rout = NoResult
    /\ calls = <<>>
    /\ started = 0
    /\ lastread = <<>>
    /\ env \in UNION {[ks -> EnvValues] : ks \in SUBSET EnvKeys}
    /\ mainst = [IdleMain EXCEPT !.pc = "read_stdio"]

\* enable_stdio = os.environ.get("ENABLE_STDIO", "1") != "0"
MainReadStdio ==
    /\ mainst.pc = "read_stdio"
    /\ mainst' = [mainst EXCEPT
            !.pc = "read_http",
            !.enable_stdio = FlagEnabled(EnvGet(env, "ENABLE_STDIO", "1"))]
    /\ UNCHANGED <<root, fs, rin, rout, calls, started, lastread, env>>

\* enable_http = os.environ.get("ENABLE_HTTP", "1") != "0"
MainReadHttp ==
    /\ mainst.pc = "read_http"
    /\ mainst' = [mainst EXCEPT
            !.pc = "start_stdio",
            !.enable_http = FlagEnabled(EnvGet(env, "ENABLE_HTTP", "1"))]
    /\ UNCHANGED <<root, fs, rin, rout, calls, started, lastread, env>>

\* if enable_stdio: tasks.append(create_task(mcp.run_stdio_async()))
MainStartStdio ==
    /\ mainst.pc = "start_stdio"
    /\ mainst' = [mainst EXCEPT
            !.pc = "start_http",
            !.tasks = IF mainst.enable_stdio THEN Append(@, "stdio") ELSE @]
    /\ UNCHANGED <<root, fs, rin, rout, calls, started, lastread, env>>

\* if enable_http: tasks.append(create_task(mcp.run_streamable_http_async()))
MainStartHttp ==
    /\ mainst.pc = "start_http"
    /\ mainst' = [mainst EXCEPT
            !.pc = "check",
            !.tasks = IF mainst.enable_http THEN Append(@, "http") ELSE @]
    /\ UNCHANGED <<root, fs, rin, rout, calls, started, lastread, env>>

\* if not tasks: raise RuntimeError(...); otherwise await gather(*tasks)
MainCheck ==
    /\ mainst.pc = "check"
    /\ mainst' = [mainst EXCEPT
            !.pc = IF mainst.tasks = <<>> THEN "failed" ELSE "serving"]
    /\ UNCHANGED <<root, fs, rin, rout, calls, started, lastread, env>>

MainNext ==
    \/ MainReadStdio
    \/ MainReadHttp
    \/ MainStartStdio
    \/ MainStartHttp
    \/ MainCheck

SpecMain == MainInit /\ [][MainNext]_vars

----------------------------------------------------------------------------
(* The claims. *)

\* The place a file argument names: the path joined to the root when it is
\* relative, then resolved.
Target(f, r, file) ==
    LET p == ParsePath(file)
    IN Resolve(f, IF p.abs THEN p.parts ELSE r \o p.parts)

\* C2: the working directory a command runs in and every file a tool reads
\* or tests for existence lie inside WORKSPACE_ROOT.
C2_TouchedInsideRoot ==
    \A s \in Slots : \A p \in calls[s].touched : Within(p, root)

\* C3: a build_latex or clean_latex call whose file resolves outside the
\* root or does not exist, and a read_latex_log call whose file resolves
\* outside the root or whose .log sibling is absent, returns a text report
\* (for an escape one containing "outside workspace root") at that step,
\* raises nothing and has spawned no command.
C3_EarlyErrorsReturnText ==
    [][\A s \in Slots :
        LET c == calls[s]
            d == calls'[s]
        IN /\ (c.pc = "resolve" /\ d.pc # "resolve"
                    /\ ~Within(Target(fs, root, c.file), root))
              => /\ d.pc = "done"
                 /\ StartsWith(d.report, "ERROR: ")
                 /\ Contains(d.report, "outside workspace root")
                 /\ d.spawns = 0
           /\ (c.pc = "exists" /\ d.pc # "exists" /\ ~Exists(fs, c.abs))
              => /\ d.pc = "done"
                 /\ StartsWith(d.report, "ERROR: File not found: ")
                 /\ d.spawns = 0
           /\ (c.pc = "logexists" /\ d.pc # "logexists"
                    /\ ~Exists(fs, LogPath(c.abs)))
              => /\ d.pc = "done"
                 /\ StartsWith(d.report, "Log file not found: ")
                 /\ Contains(d.report, "run build_latex first")
                 /\ d.spawns = 0
           /\ (d.pc = "done" /\ d.spawns = 0) => d.exc = ""
      ]_vars

\* build_latex("../etc/passwd") has returned its escape report without a
\* command.
C3_Witness ==
    \E s \in Slots :
        /\ calls[s].pc = "done"
        /\ calls[s].tool = "build_latex"
        /\ calls[s].file = "../etc/passwd"
        /\ Contains(calls[s].report, "outside workspace root")
        /\ calls[s].spawns = 0

\* C4: whatever bytes the child writes, the executor returns a transcript
\* and no decode raises.
C4_DecodeNeverRaises ==
    \A s \in Slots : calls[s].exc # "UnicodeDecodeError"

\* C5: when build_latex builds its report, the PDF line names
\* <dir>/<basename>.pdf if that file exists then, and reads NO otherwise,
\* whatever the exit code.
C5_PdfLineIffExists ==
    [][\A s \in Slots :
        LET c == calls[s]
            d == calls'[s]
            pdf == Append(Parent(c.abs), Stem(c.abs) \o ".pdf")
        IN (c.pc = "exited" /\ d.pc = "done" /\ c.tool = "build_latex")
           => IF Exists(fs, pdf)
              THEN Contains(d.report, "\nPDF exists: " \o Str(pdf) \o "\n")
              ELSE Contains(d.report, "\nPDF exists: NO\n")
      ]_vars

\* A build that exited non-zero reports the PDF it left.
C5_Witness ==
    \E s \in Slots :
        /\ calls[s].pc = "done"
        /\ calls[s].tool = "build_latex"
        /\ calls[s].rc # 0
        /\ Contains(calls[s].report,
                    "\nPDF exists: /workspaces/demo/main.pdf\n")

\* The text of a stream: empty, or its bytes decoded.
StreamText(bytes) == IF bytes = <<>> THEN "" ELSE Decode(bytes).text

\* C6: the transcript of a finished command is the command line, then the
\* captured stdout, then the captured stderr, and ends with the exit-code
\* line exactly when the exit code is not zero; the tool's report of it is
\* not ERROR-prefixed, and a call is never made to fail by its exit code: it
\* raises only for bytes that do not decode.
C6_TranscriptShape ==
    \A s \in Slots :
        LET c == calls[s]
            note == "\n\n[latex-mcp] Command exited with code "
                        \o ToString(c.rc) \o "\n"
            body == "--- Latexmk log ---\n> " \o c.cmd \o "\n\n"
                        \o StreamText(c.out) \o StreamText(c.err)
        IN /\ (c.pc = "done" /\ c.spawns > 0)
              => /\ ~StartsWith(c.report, "ERROR")
                 /\ IF c.rc # 0 THEN EndsWith(c.report, body \o note)
                                ELSE EndsWith(c.report, body)
           /\ c.pc = "raised" => ~Decode(c.out).ok \/ ~Decode(c.err).ok

\* A command killed by a signal, with output on both streams, is reported.
C6_Witness ==
    \E s \in Slots :
        /\ calls[s].pc = "done"
        /\ calls[s].rc = -9
        /\ calls[s].out = <<65>>
        /\ calls[s].err = <<195, 169>>
        /\ EndsWith(calls[s].report,
                    "\"\n\nA<U+233>\n\n[latex-mcp] Command exited with code -9\n")

\* The engine flag the claim names for an engine argument.
C7_Flag(opt) ==
    CASE opt = "xelatex" -> "-pdfxe"
      [] opt = "lualatex" -> "-pdflua"
      [] opt \in {"pdflatex", "unset"} -> "-pdf"

\* C7: the command of a build_latex call is latexmk with -synctex=1,
\* -interaction=nonstopmode, -file-line-error, the engine's flag and the
\* quoted file name, run in the directory that contains the resolved file.
C7_BuildCommand ==
    \A s \in Slots :
        LET c == calls[s]
        IN (c.tool = "build_latex" /\ c.spawns > 0)
           => /\ c.cmd = "latexmk -synctex=1 -interaction=nonstopmode "
                         \o "-file-line-error " \o C7_Flag(c.opt)
                         \o " \"" \o c.abs[Len(c.abs)] \o "\""
              /\ c.abs = Append(c.cwd, c.abs[Len(c.abs)])
              /\ c.spawns = 1

\* A xelatex build is running in /workspaces/demo.
C7_Witness ==
    \E s \in Slots :
        /\ calls[s].pc = "running"
        /\ calls[s].opt = "xelatex"
        /\ calls[s].cwd = <<"workspaces", "demo">>
        /\ Contains(calls[s].cmd, " -pdfxe \"main.tex\"")

\* C8: read_latex_log changes nothing on the file system, and a call that
\* follows a call for the same file, with no change of the file system
\* since that one began, returns the identical string.
C8_ReadLogIdempotent ==
    \A s \in Slots :
        LET c == calls[s]
        IN (c.tool = "read_latex_log" /\ ~c.dirty)
           => /\ fs = c.fs0
              /\ (c.pc = "done" /\ c.prev.valid) => c.report = c.prev.res
              /\ c.prev.valid => c.pc # "raised"

\* A second read of an existing log returned the first one's string.
C8_Witness ==
    \E s \in Slots :
        /\ calls[s].pc = "done"
        /\ calls[s].tool = "read_latex_log"
        /\ calls[s].prev.valid
        /\ ~calls[s].dirty
        /\ StartsWith(calls[s].report, "Log path: /workspaces/demo/main.log")

\* A second read of an absent log returned the first one's guidance.
C8_WitnessAbsent ==
    \E s \in Slots :
        /\ calls[s].pc = "done"
        /\ calls[s].tool = "read_latex_log"
        /\ calls[s].prev.valid
        /\ StartsWith(calls[s].report, "Log file not found: ")

\* What invocation c returns when it runs alone from the file system it
\* began with, its child doing what c's child did.
RunAlone(c) ==
    LET f0 == c.fs0
        r == resolve_workspace_path(f0, root, c.file)
        log_path == LogPath(r.path)
        cmd == ToolCmd(c.tool, c.opt, r.path)
        f1 == ChildFsEffect(f0, c.tool, cmd, r.path, c.eff)
        t == run_command_log(cmd, c.out, c.err, c.rc)
    IN IF ~r.ok THEN [pc |-> "done", report |-> EscapeReport(r.err)]
       ELSE IF c.tool = "read_latex_log"
       THEN IF ~Exists(f0, log_path)
            THEN [pc |-> "done",
                  report |-> LogMissingReport(f0, root, log_path)]
            ELSE [pc |-> "done",
                  report |-> LogReport(log_path,
                                ReadTextIgnore(f0[Resolve(f0, log_path)].data))]
       ELSE IF ~Exists(f0, r.path)
       THEN [pc |-> "done", report |-> NotFoundReport(f0, root, r.path)]
       ELSE IF t.raised THEN [pc |-> "raised", report |-> ""]
       ELSE IF c.tool = "build_latex"
       THEN [pc |-> "done",
             report |-> BuildReport(Parent(r.path), cmd, PdfPath(r.path),
                                    Exists(f1, PdfPath(r.path)), t.log)]
       ELSE [pc |-> "done",
             report |-> CleanReport(ModeParam(c.opt), cmd, t.log)]

\* C9 as claimed, for invocations on the file demo/main.tex inside the
\* workspace: each returns what it would have returned alone, in every
\* interleaving with the other invocation.
C9_ReportAsIfAlone ==
    \A s \in Slots :
        (calls[s].pc \in {"done", "raised"} /\ calls[s].file = "demo/main.tex")
        => [pc |-> calls[s].pc, report |-> calls[s].report]
                = RunAlone(calls[s])

\* C9 as amended: the root is never changed, and an invocation returns what
\* it would have returned alone whenever no other invocation's command
\* changed the file system while it ran.
C9_ReportAsIfAloneUnlessFsChanged ==
    /\ root = DefaultRoot
    /\ \A s \in Slots :
        (calls[s].pc \in {"done", "raised"} /\ ~calls[s].dirty)
        => [pc |-> calls[s].pc, report |-> calls[s].report]
                = RunAlone(calls[s])

\* Two invocations on the same file have both finished, a build that left
\* its PDF and a clean that removed nothing, neither disturbed.
C9_Witness ==
    \E s, t \in Slots :
        /\ calls[s].pc = "done" /\ calls[t].pc = "done"
        /\ calls[s].tool = "build_latex" /\ calls[t].tool = "clean_latex"
        /\ calls[s].file = "demo/main.tex" /\ calls[t].file = "demo/main.tex"
        /\ calls[s].spawns = 1 /\ calls[t].spawns = 1
        /\ "pdf" \in calls[s].eff
        /\ ~calls[s].dirty /\ ~calls[t].dirty

\* Whether the environment disables a transport: its flag is set to "0".
Disabled(key) == key \in DOMAIN env /\ env[key] = "0"

\* C10: once main() has started its transports or failed, a transport was
\* started exactly if its flag is not disabled (an unset flag enables), and
\* main() failed, with no transport started, exactly if both are disabled.
C10_TransportsFollowFlags ==
    mainst.pc \in {"serving", "failed"}
    => /\ (\E i \in 1..Len(mainst.tasks) : mainst.tasks[i] = "stdio")
            <=> ~Disabled("ENABLE_STDIO")
       /\ (\E i \in 1..Len(mainst.tasks) : mainst.tasks[i] = "http")
            <=> ~Disabled("ENABLE_HTTP")
       /\ mainst.pc = "failed"
            <=> (Disabled("ENABLE_STDIO") /\ Disabled("ENABLE_HTTP"))
       /\ mainst.pc = "failed" => mainst.tasks = <<>>

\* main() failed with both flags set to "0".
C10_Witness ==
    /\ mainst.pc = "failed"
    /\ Disabled("ENABLE_STDIO")
    /\ Disabled("ENABLE_HTTP")

\* Only the pipe transport runs: ENABLE_HTTP is "0", ENABLE_STDIO is unset.
C10_WitnessDefault ==
    /\ mainst.pc = "serving"
    /\ mainst.tasks = <<"stdio">>
    /\ "ENABLE_STDIO" \notin DOMAIN env

====
